---- MODULE Spec2Model ----
(***************************************************************************)
(* A model of the liquidation scanner (src/liquidation_scanner_fixed.py):  *)
(* the checkpointed, chunked scan of scan_liquidations, the deduplicating  *)
(* store of update_liquidations_db and the binary search of                *)
(* get_block_by_timestamp.                                                 *)
(*                                                                         *)
(* Numbers.  On-chain amounts are counted in units of 1e16 wei, so that    *)
(* the code's 1e18 is WAD = 100; a Python float is held as an integer      *)
(* number of hundredths (2.12 is 212).  The inputs are chosen so that      *)
(* every division the code performs on them is exact in hundredths.        *)
(* The local files (liquidation_history.json, liquidations_db.json) are    *)
(* held as what load_history and load_liquidations_db read from them; a    *)
(* write that runs to its end succeeds, and SpecCrash stops the process    *)
(* inside a write.                                                         *)
(***************************************************************************)
EXTENDS Integers, Sequences, FiniteSets, TLC

\* ------------------------------------------------------------------
\* Bounds of the model
\* ------------------------------------------------------------------

\* a provider fault inside get_block_by_timestamp, when it is called from
\* scan_liquidations, hits one of the first MaxFaultProbe midpoint fetches
MaxFaultProbe == 1
\* the first chain grows at most this many times
MaxGrowth == 1
\* the largest chain head of the resolver's own specification
MaxHead == 5

\* ------------------------------------------------------------------
\* Program constants
\* ------------------------------------------------------------------

\* 1e18, in units of 1e16 wei
WAD == 100
\* one unit of a float held in hundredths
Cent == 100
\* chunk_size
chunk_size == 10000
\* max_retries of the get_logs retry loop
max_retries == 5
\* the dust threshold on debt_repaid, in dollars
DustThreshold == 5
\* the tolerance of get_block_by_timestamp, in seconds
Tolerance == 3600
\* the fallback liquidation discount 6.0 (percent), in hundredths
DefaultDiscount == 600
\* the fallback collateral decimals
DefaultDecimals == 18

\* ------------------------------------------------------------------
\* Addresses: str.lower() and Web3.to_checksum_address
\* ------------------------------------------------------------------

Lower(s) ==
    CASE s = "0xAa" -> "0xaa"
      [] s = "0xBb" -> "0xbb"
      [] s = "0xCc" -> "0xcc"
      [] s = "0xD1" -> "0xd1"
      [] s = "0xE2" -> "0xe2"
      [] s = "0xF1" -> "0xf1"
      [] OTHER -> s

to_checksum_address(s) ==
    CASE Lower(s) = "0xaa" -> "0xAa"
      [] Lower(s) = "0xbb" -> "0xBb"
      [] Lower(s) = "0xcc" -> "0xCc"
      [] Lower(s) = "0xd1" -> "0xD1"
      [] Lower(s) = "0xe2" -> "0xE2"
      [] Lower(s) = "0xf1" -> "0xF1"
      [] OTHER -> s

\* ------------------------------------------------------------------
\* Configuration (config.json): networks in file order, their controllers
\* ------------------------------------------------------------------

Networks == <<"ethereum", "optimism">>

controller_contracts(n) ==
    IF n = "ethereum"
    THEN << [address |-> "0xaa", creation_block |-> 0,
             collateral_token |-> "WETH", platform |-> "crvUSD"],
            [address |-> "0xBb", creation_block |-> 10001,
             collateral_token |-> "WBTC", platform |-> "LlamaLend"] >>
    ELSE << [address |-> "0xCc", creation_block |-> 3,
             collateral_token |-> "OP", platform |-> "LlamaLend"] >>

\* the checksummed addresses of a network's controllers, in order
Addresses(n) ==
    [i \in 1..Len(controller_contracts(n)) |->
        to_checksum_address(controller_contracts(n)[i].address)]

AllAddresses == {"0xAa", "0xBb", "0xCc"}

CtrlOf(n, a) ==
    LET i == CHOOSE j \in 1..Len(controller_contracts(n)) : Addresses(n)[j] = a
    IN  controller_contracts(n)[i]

\* the key f"{network_name}_{controller_address}" of the checkpoint map
history_key(n, a) == <<n, a>>

NetworkSet == {Networks[i] : i \in 1..Len(Networks)}

AddressSet(n) == {Addresses(n)[j] : j \in 1..Len(Addresses(n))}

\* ------------------------------------------------------------------
\* The chains behind the provider
\* ------------------------------------------------------------------

\* block.timestamp: both chains produce one block a day
BlockTimestamp(n, b) == b * 86400

\* the chain head w3.eth.block_number reports once the chain has grown g times
ChainHead(n, g) == IF n = "ethereum" THEN 10005 + 2 * g ELSE 8

NoDebt == 0 - 1

\* the Liquidate logs of each chain, in block order.  debt = NoDebt: the
\* decoded event has no debt attribute; wellformed = FALSE: process_log raises
ChainLogs(n) ==
    IF n = "ethereum"
    THEN << [address |-> "0xAa", blockNumber |-> 7, transactionHash |-> "0xh1",
             liquidator |-> "0xF1", user |-> "0xD1", debt |-> 7 * WAD,
             collateral_received |-> 3, stablecoin_received |-> 0,
             wellformed |-> TRUE],
            [address |-> "0xaa", blockNumber |-> 8, transactionHash |-> "0xh6",
             liquidator |-> "0xF1", user |-> "0xE2", debt |-> 9 * WAD,
             collateral_received |-> 1, stablecoin_received |-> 0,
             wellformed |-> FALSE],
            [address |-> "0xAa", blockNumber |-> 9, transactionHash |-> "0xh2",
             liquidator |-> "0xF1", user |-> "0xE2", debt |-> 2 * WAD,
             collateral_received |-> 1, stablecoin_received |-> 0,
             wellformed |-> TRUE],
            [address |-> "0xAa", blockNumber |-> 10002, transactionHash |-> "0xh3",
             liquidator |-> "0xD1", user |-> "0xd1", debt |-> 9 * WAD,
             collateral_received |-> 2, stablecoin_received |-> WAD,
             wellformed |-> TRUE],
            [address |-> "0xAa", blockNumber |-> 10003, transactionHash |-> "0xh4",
             liquidator |-> "0xF1", user |-> "0xD1", debt |-> 5 * WAD,
             collateral_received |-> 2, stablecoin_received |-> 0,
             wellformed |-> TRUE],
            [address |-> "0xBb", blockNumber |-> 10003, transactionHash |-> "0xh4",
             liquidator |-> "0xF1", user |-> "0xE2", debt |-> 8 * WAD,
             collateral_received |-> 4, stablecoin_received |-> 0,
             wellformed |-> TRUE] >>
    ELSE << [address |-> "0xCc", blockNumber |-> 5, transactionHash |-> "0xh7",
             liquidator |-> "0xF1", user |-> "0xE2", debt |-> 6 * WAD,
             collateral_received |-> 5, stablecoin_received |-> 0,
             wellformed |-> TRUE] >>

\* token.decimals() and controller.liquidation_discount() as the chain holds
\* them (the discount as an 18-decimal fraction)
ChainDecimals(a) == IF a = "0xBb" THEN 8 ELSE 18

ChainDiscount(a) == IF a = "0xAa" THEN (11 * WAD) \div 100 ELSE (6 * WAD) \div 100

\* w3.eth.get_logs(filter_params) when it succeeds
get_logs(n, fromBlock, toBlock, addresses) ==
    LET Match(l) == /\ fromBlock <= l.blockNumber
                    /\ l.blockNumber <= toBlock
                    /\ \E a \in addresses : Lower(a) = Lower(l.address)
    IN  SelectSeq(ChainLogs(n), Match)

\* ------------------------------------------------------------------
\* Dictionaries
\* ------------------------------------------------------------------

EmptyDict == [k \in {} |-> 0]

\* lines 37, 42, 61 and 67 without the assignment to the cache
PutNothing(d, k, v) == d

\* d[k] = v
Put(d, k, v) == [j \in DOMAIN d \cup {k} |-> IF j = k THEN v ELSE d[j]]

\* d.get(k, default)
Get(d, k, default) == IF k \in DOMAIN d THEN d[k] ELSE default

\* lines 469-471 writing a map that holds the included entries only
OnlyCheckpoints(h, keys, block) == [k \in keys |-> block]

\* lines 469-471 writing the block before the end of the chunk
WritePreviousBlock(h, keys, block) ==
    [k \in DOMAIN h \cup keys |-> IF k \in keys THEN block - 1 ELSE h[k]]

\* lines 469-471: history[key] = current_to for the key of every included
\* controller; every other entry of the map stays
WriteCheckpoints(h, keys, block) ==
    [k \in DOMAIN h \cup keys |-> IF k \in keys THEN block ELSE h[k]]

Max(a, b) == IF a >= b THEN a ELSE b

Min(a, b) == IF a <= b THEN a ELSE b

Abs(a) == IF a >= 0 THEN a ELSE 0 - a

SeqToSet(s) == {s[i] : i \in 1..Len(s)}

\* ------------------------------------------------------------------
\* The store: load_liquidations_db / update_liquidations_db
\* ------------------------------------------------------------------

\* the loop of lines 119-121 without the test of line 120
AppendAll(db, existing_tx_hashes, new_events) == db \o new_events

RECURSIVE AppendNew(_, _, _)
\* lines 119-121: the loop over new_events against the hashes read at line 118
AppendNew(db, existing_tx_hashes, new_events) ==
    IF new_events = <<>> THEN db
    ELSE AppendNew(IF Head(new_events).tx_hash \notin existing_tx_hashes
                   THEN Append(db, Head(new_events)) ELSE db,
                   existing_tx_hashes, Tail(new_events))

\* the store without the tx_hash test of line 120
UpdateWithoutDedup(file, new_events) == file \o new_events

\* lines 116-122 with the new events written before the stored ones
UpdatePrepending(file, new_events) == new_events \o file

\* update_liquidations_db(new_events) on the store `file`: the store it writes
update_liquidations_db(file, new_events) ==
    LET db == file
        existing_tx_hashes == {db[i].tx_hash : i \in 1..Len(db)}
    IN  AppendNew(db, existing_tx_hashes, new_events)

\* lines 109-112 with a write that keeps the records the file holds and
\* adds those of db it lacks
MergedStore(db, file) ==
    AppendNew(file, {file[i].tx_hash : i \in 1..Len(file)}, db)

\* save_liquidations_db(db), lines 109-112: open(..., "w") and json.dump put
\* db in the place of whatever the file holds
WrittenStore(db, file) == db

\* ------------------------------------------------------------------
\* The decoder: lines 404-461 of scan_liquidations
\* ------------------------------------------------------------------

\* float(event.args.debt) / 1e18, in hundredths
DebtRepaid(debt) == (debt * Cent) \div WAD

\* the filter of line 416 left out
NeverDust(log) == FALSE

\* line 416: debt_repaid is None or debt_repaid < 5
IsDust(log) == log.debt = NoDebt \/ DebtRepaid(log.debt) < DustThreshold * Cent

\* line 421 without the .lower() calls
IsSelfLiquidationExact(log) == log.liquidator = log.user

\* line 421: liquidator.lower() == user.lower()
IsSelfLiquidation(log) == Lower(log.liquidator) = Lower(log.user)

\* the log passes both filters
Qualifies(log) == ~IsDust(log) /\ ~IsSelfLiquidation(log)

\* line 59: float(discount) / 1e18 * 100, in hundredths of a percent
DiscountPercent(discount) == ((discount * Cent) \div WAD) * 100

\* line 436: debt_repaid * (liquidation_discount / 100)
UserLossAmount(debt_repaid, liquidation_discount) ==
    (debt_repaid * (liquidation_discount \div 100)) \div Cent

\* lines 444-461: new_event
NewEvent(n, ctrl, log, collateral_decimals, liquidation_discount, block_timestamp) ==
    LET debt_repaid == DebtRepaid(log.debt)
        user_loss_amount == UserLossAmount(debt_repaid, liquidation_discount)
    IN  [network |-> n,
         controller |-> to_checksum_address(ctrl.address),
         block_number |-> log.blockNumber,
         liquidation_time |-> block_timestamp,
         tx_hash |-> log.transactionHash,
         liquidator |-> log.liquidator,
         user |-> log.user,
         collateral_received |-> [raw |-> log.collateral_received,
                                  decimals |-> collateral_decimals],
         stablecoin_received |-> (log.stablecoin_received * Cent) \div WAD,
         debt_repaid |-> debt_repaid,
         liquidation_discount |-> liquidation_discount,
         user_loss_amount |-> user_loss_amount,
         total_loss_value |-> debt_repaid + user_loss_amount,
         user_loss_percent |-> liquidation_discount,
         collateral_token |-> ctrl.collateral_token,
         platform |-> ctrl.platform]

\* ------------------------------------------------------------------
\* get_block_by_timestamp as the set of blocks it can return
\* ------------------------------------------------------------------

\* line 215 with the lower end of the range as the block to probe
LowestBlock(earliest_block, latest_block) == earliest_block

\* line 215
Midpoint(earliest_block, latest_block) == (earliest_block + latest_block) \div 2

\* line 237 with a tolerance of no second
ExactMatch(block_timestamp, target_timestamp) ==
    block_timestamp = target_timestamp

\* line 237
WithinTolerance(block_timestamp, target_timestamp) ==
    Abs(block_timestamp - target_timestamp) <= Tolerance

\* lines 256-268 with earliest_block returned
AfterLoopEarliest(earliest_block, latest_block, h, head_may_fail) ==
    {earliest_block}

\* lines 256-268 after the loop was left: the current head h, latest_block
\* when the range did not collapse, or when the head cannot be read again
AfterLoop(earliest_block, latest_block, h, head_may_fail) ==
    IF earliest_block > latest_block
    THEN {h} \cup (IF head_may_fail THEN {latest_block} ELSE {})
    ELSE {latest_block}

RECURSIVE Search(_, _, _, _, _, _, _)
\* lines 213-254 from the probe numbered `iteration` on; a block fetch may
\* fail at the probes up to `faulty`
Search(n, target_timestamp, earliest_block, latest_block, iteration, h, faulty) ==
    IF earliest_block > latest_block
    THEN AfterLoop(earliest_block, latest_block, h, faulty > 0)
    ELSE LET mid_block == Midpoint(earliest_block, latest_block)
             block_timestamp == BlockTimestamp(n, mid_block)
             fetched ==
                 IF WithinTolerance(block_timestamp, target_timestamp)
                 THEN {mid_block}
                 ELSE IF block_timestamp < target_timestamp
                 THEN Search(n, target_timestamp, mid_block + 1, latest_block,
                             iteration + 1, h, faulty)
                 ELSE Search(n, target_timestamp, earliest_block, mid_block - 1,
                             iteration + 1, h, faulty)
             failed ==
                 IF iteration <= faulty
                 THEN {h} \cup AfterLoop(earliest_block, latest_block, h, TRUE)
                 ELSE {}
         IN  fetched \cup failed

\* the blocks get_block_by_timestamp can return on chain n with head h
get_block_by_timestamp(n, target_timestamp, h, faulty) ==
    Search(n, target_timestamp, 1, h, 1, h, faulty)

\* ------------------------------------------------------------------
\* State
\* ------------------------------------------------------------------

VARIABLES
    history_file,     \* liquidation_history.json: key -> last scanned block
    db_file,          \* liquidations_db.json: the list of stored events
    head_i,           \* per network, how many times its chain has grown
    pc,               \* where scan_liquidations stands
    start_timestamp,  \* 0 when no start date is given (line 312 tests truth)
    end_timestamp,    \* 0 when no end date is given
    net_i,            \* the index in Networks of the network being scanned
    history,          \* the in-memory checkpoint map (line 276)
    effective_start,  \* controllers_list: address -> effective_start (0: not listed)
    to_block,
    current_from,
    current_to,
    retry_count,
    delay,            \* the last sleep of the retry loop, in seconds
    attempts,         \* the calls of w3.eth.get_logs made for the current chunk
    get_logs_result,  \* how the retry loop of the current chunk was left
    logs,             \* the local `logs`
    logs_bound,       \* 'logs' in locals()
    log_i,            \* the position of the for loop of line 394
    all_new_events,
    DECIMALS_CACHE,
    DISCOUNT_CACHE,
    covered,          \* the tx hashes accepted in chunks whose checkpoint is on file
    provider,         \* what the provider answers when its answers are fixed
    run,              \* the runs begun against that provider
    run_dates,        \* the dates those runs are given
    resolver_pc,      \* where a call of get_block_by_timestamp stands
    chain,            \* the chain it searches: block number -> timestamp
    target_timestamp,
    latest_block,
    earliest_block,
    mid_block,
    iteration,
    retry,
    returned,         \* the block it returned
    writers           \* the processes inside update_liquidations_db

scan_vars == <<history_file, db_file, head_i, pc, start_timestamp,
               end_timestamp, net_i, history, effective_start, to_block,
               current_from, current_to, retry_count, delay, attempts,
               get_logs_result, logs, logs_bound, log_i, all_new_events,
               DECIMALS_CACHE, DISCOUNT_CACHE, covered>>

resolver_vars == <<resolver_pc, chain, target_timestamp, latest_block,
                   earliest_block, mid_block, iteration, retry, returned>>

vars == <<scan_vars, provider, run, run_dates, resolver_vars, writers>>

\* the dates a run can be given, as days since the epoch (0: none)
Dates == {6, 10003}

\* int(datetime.strptime(date).replace(tzinfo=utc).timestamp())
DateTimestamp(d) == d * 86400

\* random.uniform(0, 2), to the second
Jitter == {0, 1}

NoAddresses == [a \in AllAddresses |-> 0]

network_name == Networks[net_i]

block_number(n) == ChainHead(n, head_i[n])

Running == pc \in {"network", "get_logs", "logs", "checkpoint", "save"}

ScanInitFrom(file) ==
    /\ history_file = file
    /\ db_file = <<>>
    /\ head_i = [n \in NetworkSet |-> 0]
    /\ pc = "idle"
    /\ start_timestamp = 0
    /\ end_timestamp = 0
    /\ net_i = 1
    /\ history = EmptyDict
    /\ effective_start = NoAddresses
    /\ to_block = 0
    /\ current_from = 0
    /\ current_to = 0
    /\ retry_count = 0
    /\ delay = 0
    /\ attempts = 0
    /\ get_logs_result = "pending"
    /\ logs = <<>>
    /\ logs_bound = FALSE
    /\ log_i = 1
    /\ all_new_events = <<>>
    /\ DECIMALS_CACHE = EmptyDict
    /\ DISCOUNT_CACHE = EmptyDict
    /\ covered = {}

\* before the first run: neither file exists
ScanInit == ScanInitFrom(EmptyDict)

\* ------------------------------------------------------------------
\* scan_liquidations
\* ------------------------------------------------------------------

\* the process is gone: its locals and caches with it. The two files stay,
\* holding what load_history and load_liquidations_db will read from them
ProcessEndsWith(how, history_read, db_read) ==
    /\ pc' = how
    /\ history_file' = history_read
    /\ db_file' = db_read
    /\ start_timestamp' = 0
    /\ end_timestamp' = 0
    /\ net_i' = 1
    /\ history' = EmptyDict
    /\ effective_start' = NoAddresses
    /\ to_block' = 0
    /\ current_from' = 0
    /\ current_to' = 0
    /\ retry_count' = 0
    /\ delay' = 0
    /\ attempts' = 0
    /\ get_logs_result' = "pending"
    /\ logs' = <<>>
    /\ logs_bound' = FALSE
    /\ log_i' = 1
    /\ all_new_events' = <<>>
    /\ DECIMALS_CACHE' = EmptyDict
    /\ DISCOUNT_CACHE' = EmptyDict
    /\ UNCHANGED <<head_i, covered, provider, run, run_dates, resolver_vars,
                   writers>>

\* the process ends between two writes
ProcessEnds(how) == ProcessEndsWith(how, history_file, db_file)

\* lines 275-286 in a fresh process: the configuration and the checkpoint map
\* are loaded, the dates converted
StartRun(start_date, end_date) ==
    /\ pc \in {"idle", "done", "aborted", "killed"}
    /\ history' = history_file
    /\ all_new_events' = <<>>
    /\ start_timestamp' = DateTimestamp(start_date)
    /\ end_timestamp' = DateTimestamp(end_date)
    /\ net_i' = 1
    /\ pc' = "network"
    /\ effective_start' = NoAddresses
    /\ to_block' = 0
    /\ current_from' = 0
    /\ current_to' = 0
    /\ retry_count' = 0
    /\ delay' = 0
    /\ attempts' = 0
    /\ get_logs_result' = "pending"
    /\ logs' = <<>>
    /\ logs_bound' = FALSE
    /\ log_i' = 1
    /\ DECIMALS_CACHE' = EmptyDict
    /\ DISCOUNT_CACHE' = EmptyDict
    /\ UNCHANGED <<history_file, db_file, head_i, covered, provider,
                   resolver_vars, writers>>

\* the locals of the chunk loop once a network is left
LeaveNetwork ==
    /\ net_i' = net_i + 1
    /\ pc' = "network"
    /\ effective_start' = NoAddresses
    /\ to_block' = 0
    /\ current_from' = 0
    /\ current_to' = 0
    /\ retry_count' = 0
    /\ delay' = 0
    /\ attempts' = 0
    /\ get_logs_result' = "pending"
    /\ log_i' = 1

\* lines 299-301 with a return in the place of the continue
SkipEndsRun ==
    /\ pc = "network"
    /\ net_i <= Len(Networks)
    /\ ProcessEnds("done")

\* lines 299-301: w3.is_connected() is false
SkipUnreachable ==
    /\ pc = "network"
    /\ net_i <= Len(Networks)
    /\ LeaveNetwork
    /\ UNCHANGED <<history_file, db_file, head_i, start_timestamp,
                   end_timestamp, history, logs, logs_bound, all_new_events,
                   DECIMALS_CACHE, DISCOUNT_CACHE,
                   covered, provider, run, run_dates, resolver_vars, writers>>

\* lines 312-321 with creation_block in the place of max(creation_block, 1)
StartChoicesFromCreation(n, ctrl, faulty) ==
    LET key == history_key(n, to_checksum_address(ctrl.address))
    IN  IF start_timestamp # 0
        THEN {Max(start_block, ctrl.creation_block) :
                start_block \in get_block_by_timestamp(n, start_timestamp,
                                    block_number(n), faulty)}
        ELSE {Get(history, key, ctrl.creation_block)}

\* lines 312-321: the effective_start values one controller can be given
StartChoices(n, ctrl, faulty) ==
    LET min_creation_block == Max(ctrl.creation_block, 1)
        key == history_key(n, to_checksum_address(ctrl.address))
    IN  IF start_timestamp # 0
        THEN {Max(start_block, min_creation_block) :
                start_block \in get_block_by_timestamp(n, start_timestamp,
                                    block_number(n), faulty)}
        ELSE {Get(history, key, min_creation_block)}

\* lines 339-342: the values to_block can be given
EndChoices(n, faulty) ==
    IF end_timestamp # 0
    THEN get_block_by_timestamp(n, end_timestamp, block_number(n), faulty)
    ELSE {block_number(n)}

\* line 357 with the block after the chunk's last in the place of its last
AddressesOffByOne(n, eff, chunk_to) ==
    {a \in AddressSet(n) : eff[a] <= chunk_to + 1}

\* line 357 without its condition: every controller of the network
EveryAddress(n, eff, chunk_to) == AddressSet(n)

\* line 357: the addresses of the controllers with effective_start <= current_to
ChunkAddresses(n, eff, chunk_to) ==
    {a \in AddressSet(n) : eff[a] <= chunk_to}

\* line 355 without the - 1
ChunkEndOneMore(chunk_from, tb) == Min(chunk_from + chunk_size, tb)

\* line 355
ChunkEnd(chunk_from, tb) == Min(chunk_from + chunk_size - 1, tb)

RECURSIVE LoopHead(_, _, _, _)
\* lines 354-360: the first block from chunk_from on whose chunk has a
\* controller to query, or a block above tb when the loop ends
LoopHead(n, eff, chunk_from, tb) ==
    IF chunk_from > tb THEN chunk_from
    ELSE IF ChunkAddresses(n, eff, ChunkEnd(chunk_from, tb)) # {} THEN chunk_from
    ELSE LoopHead(n, eff, ChunkEnd(chunk_from, tb) + 1, tb)

\* the loop test of line 354 and, inside the loop, lines 355-371
EnterChunk(n, eff, chunk_from, tb) ==
    LET cf == LoopHead(n, eff, chunk_from, tb)
    IN  IF cf > tb
        THEN LeaveNetwork
        ELSE /\ current_from' = cf
             /\ current_to' = ChunkEnd(cf, tb)
             /\ retry_count' = 0
             /\ attempts' = 0
             /\ get_logs_result' = "pending"
             /\ effective_start' = eff
             /\ to_block' = tb
             /\ pc' = "get_logs"
             /\ UNCHANGED <<net_i, delay, log_i>>

\* line 350 with a test that never holds
NeverSkipped(global_min, tb) == FALSE

\* line 350: nothing new to scan on the network
NothingToScan(global_min, tb) == global_min >= tb

\* lines 303-352: the network answers; controllers_list, global_min and
\* to_block are computed, and the network is skipped or its first chunk begun.
\* The block fetches of get_block_by_timestamp can fail at the probes up to
\* `faulty`
BeginNetworkWith(faulty) ==
    /\ pc = "network"
    /\ net_i <= Len(Networks)
    /\ LET n == network_name
           ctrls == controller_contracts(n)
           starts == UNION {StartChoices(n, ctrls[i], faulty) : i \in 1..Len(ctrls)}
       IN  \E es \in [1..Len(ctrls) -> starts], tb \in EndChoices(n, faulty) :
             /\ \A i \in 1..Len(ctrls) : es[i] \in StartChoices(n, ctrls[i], faulty)
             /\ LET eff == [a \in AllAddresses |->
                              IF a \in AddressSet(n)
                              THEN es[CHOOSE i \in 1..Len(ctrls) :
                                        Addresses(n)[i] = a]
                              ELSE 0]
                    global_min == CHOOSE m \in {eff[a] : a \in AddressSet(n)} :
                                    \A a \in AddressSet(n) : m <= eff[a]
                IN  IF NothingToScan(global_min, tb)
                    THEN LeaveNetwork
                    ELSE EnterChunk(n, eff, global_min, tb)
    /\ UNCHANGED <<history_file, db_file, head_i, start_timestamp,
                   end_timestamp, history, logs, logs_bound, all_new_events,
                   DECIMALS_CACHE, DISCOUNT_CACHE,
                   covered, provider, run, run_dates, resolver_vars, writers>>

BeginNetwork == BeginNetworkWith(MaxFaultProbe)

\* lines 197-206 and 342: w3.eth.block_number raises where no handler
\* surrounds it, and the exception leaves scan_liquidations
SetupRaises ==
    /\ pc = "network"
    /\ net_i <= Len(Networks)
    /\ ProcessEnds("aborted")

\* line 382 with a delay that grows linearly
LinearDelay(count, jitter) == (2 * count) + jitter

\* line 382: (2 ** retry_count) + random.uniform(0, 2)
BackoffDelay(count, jitter) == (2 ^ count) + jitter

\* line 393
LogsAreProcessed(count, bound) == count <= max_retries /\ bound

\* the retry loop is left (lines 376, 387, 390) and line 393 is evaluated.
\* retry_count and delay are not read after line 393: they are forgotten here
LeaveRetryLoop(count, bound, result) ==
    /\ get_logs_result' = result
    /\ pc' = IF LogsAreProcessed(count, bound) THEN "logs" ELSE "checkpoint"
    /\ log_i' = 1
    /\ retry_count' = 0
    /\ delay' = 0

\* lines 373-376: w3.eth.get_logs returns
GetLogsReturns ==
    /\ pc = "get_logs"
    /\ retry_count <= max_retries
    /\ attempts' = attempts + 1
    /\ logs' = get_logs(network_name, current_from, current_to,
                        ChunkAddresses(network_name, effective_start, current_to))
    /\ logs_bound' = TRUE
    /\ LeaveRetryLoop(retry_count, TRUE, "returned")
    /\ UNCHANGED <<history_file, db_file, head_i, start_timestamp,
                   end_timestamp, net_i, history, effective_start, to_block,
                   current_from, current_to, all_new_events, DECIMALS_CACHE,
                   DISCOUNT_CACHE,
                   covered, provider, run, run_dates, resolver_vars, writers>>

\* lines 379-387: w3.eth.get_logs raises a rate-limit error
GetLogsRateLimited ==
    /\ pc = "get_logs"
    /\ retry_count <= max_retries
    /\ attempts' = attempts + 1
    /\ IF retry_count + 1 <= max_retries
       THEN /\ retry_count' = retry_count + 1
            /\ \E jitter \in Jitter :
                  delay' = BackoffDelay(retry_count + 1, jitter)
            /\ UNCHANGED <<pc, log_i, get_logs_result>>
       ELSE LeaveRetryLoop(retry_count + 1, logs_bound, "exhausted")
    /\ UNCHANGED <<history_file, db_file, head_i, start_timestamp,
                   end_timestamp, net_i, history, effective_start, to_block,
                   current_from, current_to, logs, logs_bound, all_new_events,
                   DECIMALS_CACHE, DISCOUNT_CACHE,
                   covered, provider, run, run_dates, resolver_vars, writers>>

\* lines 388-390: w3.eth.get_logs raises any other error
GetLogsFails ==
    /\ pc = "get_logs"
    /\ retry_count <= max_retries
    /\ attempts' = attempts + 1
    /\ LeaveRetryLoop(retry_count, logs_bound, "failed")
    /\ UNCHANGED <<history_file, db_file, head_i, start_timestamp,
                   end_timestamp, net_i, history, effective_start, to_block,
                   current_from, current_to, logs, logs_bound, all_new_events,
                   DECIMALS_CACHE, DISCOUNT_CACHE,
                   covered, provider, run, run_dates, resolver_vars, writers>>

\* line 404 with a process_log that raises on no log
DecodesAlways(log) == TRUE

\* line 404: controller.events.Liquidate().process_log(log) returns
Decodes(log) == log.wellformed

\* line 395: the first controller of the list with the log's address
CtrlInfo(n, log) ==
    LET hits == {i \in 1..Len(controller_contracts(n)) :
                    Lower(Addresses(n)[i]) = Lower(log.address)}
    IN  IF hits = {} THEN 0 ELSE CHOOSE i \in hits : \A j \in hits : i <= j

\* lines 394-466: one pass of the for loop.  decimals_ok, discount_ok and
\* block_ok say whether the provider answers the view calls and get_block
ProcessLogWith(decimals_ok, discount_ok, block_ok) ==
    /\ pc = "logs"
    /\ log_i <= Len(logs)
    /\ log_i' = log_i + 1
    /\ LET n == network_name
           log == logs[log_i]
           ci == CtrlInfo(n, log)
       IN  IF ci = 0 \/ ~Decodes(log)
           THEN UNCHANGED <<db_file, all_new_events, DECIMALS_CACHE,
                            DISCOUNT_CACHE>>
           ELSE LET ctrl == controller_contracts(n)[ci]
                    address == Addresses(n)[ci]
                    collateral_decimals ==
                        IF address \in DOMAIN DECIMALS_CACHE
                        THEN DECIMALS_CACHE[address]
                        ELSE IF decimals_ok THEN ChainDecimals(address)
                        ELSE DefaultDecimals
                    liquidation_discount ==
                        IF address \in DOMAIN DISCOUNT_CACHE
                        THEN DISCOUNT_CACHE[address]
                        ELSE IF discount_ok
                        THEN DiscountPercent(ChainDiscount(address))
                        ELSE DefaultDiscount
                    new_event == NewEvent(n, ctrl, log, collateral_decimals,
                                          liquidation_discount,
                                          BlockTimestamp(n, log.blockNumber))
                IN  /\ DECIMALS_CACHE' = Put(DECIMALS_CACHE, address,
                                             collateral_decimals)
                    /\ IF ~Qualifies(log)
                       THEN UNCHANGED <<db_file, all_new_events,
                                        DISCOUNT_CACHE>>
                       ELSE /\ DISCOUNT_CACHE' = Put(DISCOUNT_CACHE, address,
                                                     liquidation_discount)
                            /\ IF block_ok
                               THEN /\ all_new_events' =
                                          Append(all_new_events, new_event)
                                    /\ db_file' = update_liquidations_db(
                                                      db_file, <<new_event>>)
                               ELSE UNCHANGED <<db_file, all_new_events>>
    /\ UNCHANGED <<history_file, head_i, pc, start_timestamp,
                   end_timestamp, net_i, history, effective_start, to_block,
                   current_from, current_to, retry_count, delay, attempts, logs,
                   logs_bound, get_logs_result, covered, provider, run,
                   run_dates, resolver_vars, writers>>

\* the provider may fail each call
ProcessLog ==
    \E decimals_ok, discount_ok, block_ok \in BOOLEAN :
        ProcessLogWith(decimals_ok, discount_ok, block_ok)

\* the provider answers each call
ProcessLogAnswered == ProcessLogWith(TRUE, TRUE, TRUE)

\* lines 469-472: the checkpoints and the cursors of the included controllers
AdvanceCheckpoints ==
    /\ pc = "checkpoint" \/ (pc = "logs" /\ log_i > Len(logs))
    /\ LET n == network_name
           included == ChunkAddresses(n, effective_start, current_to)
       IN  /\ history' = WriteCheckpoints(history,
                               {history_key(n, a) : a \in included},
                               current_to)
           /\ effective_start' = [a \in AllAddresses |->
                                    IF a \in included THEN current_to + 1
                                    ELSE effective_start[a]]
    /\ pc' = "save"
    /\ UNCHANGED <<history_file, db_file, head_i, start_timestamp,
                   end_timestamp, net_i, to_block, current_from, current_to,
                   retry_count, delay, attempts, logs, logs_bound, log_i,
                   all_new_events, DECIMALS_CACHE, DISCOUNT_CACHE,
                   get_logs_result,
                   covered, provider, run, run_dates, resolver_vars, writers>>

\* lines 473-474 and the loop test of line 354
SaveHistory ==
    /\ pc = "save"
    /\ history_file' = history
    /\ covered' = covered \cup
                  {all_new_events[i].tx_hash : i \in 1..Len(all_new_events)}
    /\ EnterChunk(network_name, effective_start, current_to + 1, to_block)
    /\ UNCHANGED <<db_file, head_i, start_timestamp, end_timestamp,
                   history, logs, logs_bound, all_new_events, DECIMALS_CACHE,
                   DISCOUNT_CACHE,
                   provider, run, run_dates, resolver_vars, writers>>

\* lines 477-478: every network was visited
FinishRun ==
    /\ pc = "network"
    /\ net_i > Len(Networks)
    /\ ProcessEnds("done")

\* the process is stopped from outside while it scans
Interrupt ==
    /\ Running
    /\ ProcessEnds("killed")

\* the log reaches line 464
ReachesStore(n, log) == CtrlInfo(n, log) # 0 /\ Decodes(log) /\ Qualifies(log)

\* the process is stopped inside save_liquidations_db (lines 109-112, called
\* at line 464): open(..., "w") has emptied the file and json.dump has not
\* finished. load_liquidations_db (lines 101-107) reads such a file as []
InterruptStoreWrite ==
    /\ pc = "logs"
    /\ log_i <= Len(logs)
    /\ ReachesStore(network_name, logs[log_i])
    /\ ProcessEndsWith("killed", history_file, <<>>)

\* the process is stopped inside save_history (lines 86-89, called at line
\* 473) in the same way. load_history (lines 77-83) reads such a file as {}
InterruptHistoryWrite ==
    /\ pc = "save"
    /\ ProcessEndsWith("killed", EmptyDict, db_file)

\* the first chain grows between two runs
NewBlocks ==
    /\ pc \in {"idle", "done", "aborted", "killed"}
    /\ head_i[Networks[1]] < MaxGrowth
    /\ head_i' = [head_i EXCEPT ![Networks[1]] = @ + 1]
    /\ UNCHANGED <<history_file, db_file, pc, start_timestamp,
                   end_timestamp, net_i, history, effective_start, to_block,
                   current_from, current_to, retry_count, delay, attempts,
                   get_logs_result, logs, logs_bound, log_i, all_new_events,
                   DECIMALS_CACHE, DISCOUNT_CACHE,
                   covered, provider, run, run_dates, resolver_vars, writers>>

\* ------------------------------------------------------------------
\* get_block_by_timestamp, call by call
\* ------------------------------------------------------------------

\* the seconds between a block and the next
Gaps == {0, 3600, 10800}

RECURSIVE ChainsOfLen(_)
\* the chains of k blocks; block timestamps do not decrease
ChainsOfLen(k) ==
    IF k = 0 THEN {<<>>}
    ELSE {Append(c, (IF c = <<>> THEN 0 ELSE c[Len(c)]) + g) :
            c \in ChainsOfLen(k - 1), g \in Gaps}

Chains == UNION {ChainsOfLen(k) : k \in 1..MaxHead}

Targets == {k * 1800 : k \in 0..(6 * MaxHead + 2)}

ResolverInit ==
    /\ resolver_pc = "idle"
    /\ chain = <<>>
    /\ target_timestamp = 0
    /\ latest_block = 0
    /\ earliest_block = 0
    /\ mid_block = 0
    /\ iteration = 0
    /\ retry = 0
    /\ returned = 0

ScanIdle == UNCHANGED <<scan_vars, provider, run, run_dates, writers>>

\* line 191: the function is called
ResolverCall ==
    /\ resolver_pc = "idle"
    /\ chain' \in Chains
    /\ target_timestamp' \in Targets
    /\ resolver_pc' = "block_number"
    /\ UNCHANGED <<latest_block, earliest_block, mid_block, iteration, retry,
                   returned>>
    /\ ScanIdle

\* lines 197-198, 208, 212: the head is read
BlockNumberReturns ==
    /\ resolver_pc = "block_number"
    /\ latest_block' = Len(chain)
    /\ earliest_block' = 1
    /\ iteration' = 0
    /\ retry' = 0
    /\ resolver_pc' = "while"
    /\ UNCHANGED <<chain, target_timestamp, mid_block, returned>>
    /\ ScanIdle

\* lines 199-203: a 429 before the last of the 5 tries
BlockNumberRateLimited ==
    /\ resolver_pc = "block_number"
    /\ retry < 4
    /\ retry' = retry + 1
    /\ UNCHANGED <<resolver_pc, chain, target_timestamp, latest_block,
                   earliest_block, mid_block, iteration, returned>>
    /\ ScanIdle

\* lines 204-206: another error, or a 429 at the last try, is raised again
BlockNumberRaises ==
    /\ resolver_pc = "block_number"
    /\ resolver_pc' = "raised"
    /\ UNCHANGED <<chain, target_timestamp, latest_block, earliest_block,
                   mid_block, iteration, retry, returned>>
    /\ ScanIdle

\* lines 213-215: the loop test and the midpoint
WhileTest ==
    /\ resolver_pc = "while"
    /\ IF earliest_block <= latest_block
       THEN /\ iteration' = iteration + 1
            /\ mid_block' = Midpoint(earliest_block, latest_block)
            /\ resolver_pc' = "get_block"
       ELSE /\ resolver_pc' = "after"
            /\ UNCHANGED <<iteration, mid_block>>
    /\ retry' = 0
    /\ UNCHANGED <<chain, target_timestamp, latest_block, earliest_block,
                   returned>>
    /\ ScanIdle

\* lines 222-223 and 232-243: the block is fetched and compared
GetBlockReturns ==
    /\ resolver_pc = "get_block"
    /\ LET block_timestamp == chain[mid_block]
       IN  IF WithinTolerance(block_timestamp, target_timestamp)
           THEN /\ returned' = mid_block
                /\ resolver_pc' = "returned"
                /\ UNCHANGED <<earliest_block, latest_block>>
           ELSE IF block_timestamp < target_timestamp
           THEN /\ earliest_block' = mid_block + 1
                /\ resolver_pc' = "while"
                /\ UNCHANGED <<latest_block, returned>>
           ELSE /\ latest_block' = mid_block - 1
                /\ resolver_pc' = "while"
                /\ UNCHANGED <<earliest_block, returned>>
    /\ UNCHANGED <<chain, target_timestamp, mid_block, iteration, retry>>
    /\ ScanIdle

\* lines 224-228: a 429 before the last of the 5 tries
GetBlockRateLimited ==
    /\ resolver_pc = "get_block"
    /\ retry < 4
    /\ retry' = retry + 1
    /\ UNCHANGED <<resolver_pc, chain, target_timestamp, latest_block,
                   earliest_block, mid_block, iteration, returned>>
    /\ ScanIdle

\* lines 229-230 and 244-254: the fetch raises. A POA error returns the head
\* when the head can be read; every other case leaves the loop
GetBlockRaises ==
    /\ resolver_pc = "get_block"
    /\ \E poa, head_read \in BOOLEAN :
          IF poa /\ head_read
          THEN /\ returned' = Len(chain)
               /\ resolver_pc' = "returned"
          ELSE /\ resolver_pc' = "after"
               /\ UNCHANGED returned
    /\ UNCHANGED <<chain, target_timestamp, latest_block, earliest_block,
                   mid_block, iteration, retry>>
    /\ ScanIdle

\* lines 256-268; head_may_fail: the read of line 259 can raise
ReturnAfterLoopWith(head_may_fail) ==
    /\ resolver_pc = "after"
    /\ returned' \in AfterLoop(earliest_block, latest_block, Len(chain),
                               head_may_fail)
    /\ resolver_pc' = "returned"
    /\ UNCHANGED <<chain, target_timestamp, latest_block, earliest_block,
                   mid_block, iteration, retry>>
    /\ ScanIdle

ReturnAfterLoop == ReturnAfterLoopWith(TRUE)

ReturnAfterLoopAnswered == ReturnAfterLoopWith(FALSE)

ResolverNext ==
    \/ ResolverCall
    \/ BlockNumberReturns
    \/ BlockNumberRateLimited
    \/ BlockNumberRaises
    \/ WhileTest
    \/ GetBlockReturns
    \/ GetBlockRateLimited
    \/ GetBlockRaises
    \/ ReturnAfterLoop

\* ------------------------------------------------------------------
\* update_liquidations_db, step by step, in processes that share the store
\* ------------------------------------------------------------------

\* the calls of update_liquidations_db each process makes
MaxCalls == 2

Writers == {1, 2}

\* the event of lines 444-461 for a log when the provider answers each call
AnsweredEvent(n, log) ==
    LET ctrl == controller_contracts(n)[CtrlInfo(n, log)]
        address == to_checksum_address(ctrl.address)
    IN  NewEvent(n, ctrl, log, ChainDecimals(address),
                 DiscountPercent(ChainDiscount(address)),
                 BlockTimestamp(n, log.blockNumber))

\* the events the processes pass: those of the logs that reach line 464
WriterEvents ==
    UNION {{AnsweredEvent(n, ChainLogs(n)[i]) :
              i \in {j \in 1..Len(ChainLogs(n)) :
                        ReachesStore(n, ChainLogs(n)[j])}} :
           n \in NetworkSet}

WritersInit ==
    writers = [w \in Writers |->
                 [pc |-> "idle", loaded |-> <<>>, db |-> <<>>,
                  new_events |-> <<>>, calls |-> 0]]

WritersIdle == UNCHANGED <<history_file, head_i, pc, start_timestamp,
                           end_timestamp, net_i, history, effective_start,
                           to_block, current_from, current_to, retry_count,
                           delay, attempts, get_logs_result, logs, logs_bound,
                           log_i, all_new_events, DECIMALS_CACHE,
                           DISCOUNT_CACHE, covered, provider, run, run_dates,
                           resolver_vars>>

\* lines 116-117: update_liquidations_db([event]) is called as at line 464
\* and reads the store
WriterLoads(w) ==
    /\ writers[w].pc = "idle"
    /\ writers[w].calls < MaxCalls
    /\ \E event \in WriterEvents :
          writers' = [writers EXCEPT ![w] =
                        [pc |-> "loaded", loaded |-> db_file, db |-> db_file,
                         new_events |-> <<event>>, calls |-> @.calls + 1]]
    /\ UNCHANGED db_file
    /\ WritersIdle

\* lines 118-121: the new events are appended to the list in memory
WriterFilters(w) ==
    /\ writers[w].pc = "loaded"
    /\ writers' = [writers EXCEPT ![w].pc = "filtered",
                                  ![w].db = update_liquidations_db(
                                                @, writers[w].new_events)]
    /\ UNCHANGED db_file
    /\ WritersIdle

\* line 122: the list in memory is written over the file
WriterWrites(w) ==
    /\ writers[w].pc = "filtered"
    /\ db_file' = WrittenStore(writers[w].db, db_file)
    /\ writers' = [writers EXCEPT ![w].pc = "idle"]
    /\ WritersIdle

WritersNext ==
    \E w \in Writers : WriterLoads(w) \/ WriterFilters(w) \/ WriterWrites(w)

\* ------------------------------------------------------------------
\* Specifications
\* ------------------------------------------------------------------

\* the answers of a provider that answers a call the same way every time
ChunkClass(from_block) == IF from_block <= chunk_size THEN "low" ELSE "high"

ChunkKeys ==
    {k \in NetworkSet \X {"low", "high"} :
        k[2] = "high" => ChainHead(k[1], 0) > chunk_size}

Providers ==
    [down : SUBSET NetworkSet,
     get_logs : [ChunkKeys -> {"returns", "limited", "fails"}],
     decimals : BOOLEAN,
     discount : BOOLEAN,
     get_block : BOOLEAN]

AnyProvider ==
    [down |-> {},
     get_logs |-> [k \in ChunkKeys |-> "returns"],
     decimals |-> TRUE,
     discount |-> TRUE,
     get_block |-> TRUE]

ReplayIdle ==
    /\ provider = AnyProvider
    /\ run = 0
    /\ run_dates = <<0, 0>>

Init == ScanInit /\ ReplayIdle /\ ResolverInit /\ WritersInit

\* a run without dates
StartUndated ==
    /\ StartRun(0, 0)
    /\ UNCHANGED <<run, run_dates>>

\* a run with any dates
StartDated ==
    /\ \E start_date, end_date \in Dates \cup {0} : StartRun(start_date, end_date)
    /\ UNCHANGED <<run, run_dates>>

ScanNext ==
    \/ StartUndated
    \/ SkipUnreachable
    \/ BeginNetwork
    \/ SetupRaises
    \/ GetLogsReturns
    \/ GetLogsRateLimited
    \/ GetLogsFails
    \/ ProcessLog
    \/ AdvanceCheckpoints
    \/ SaveHistory
    \/ FinishRun
    \/ Interrupt
    \/ NewBlocks

\* runs without dates against a provider that can fail every call; the
\* process is stopped between writes
Spec == Init /\ [][ScanNext]_vars

DatedNext ==
    \/ StartDated
    \/ BeginNetwork
    \/ SetupRaises
    \/ GetLogsReturns
    \/ ProcessLogAnswered
    \/ AdvanceCheckpoints
    \/ SaveHistory
    \/ FinishRun
    \/ Interrupt

\* runs with or without dates against a provider that answers the log, block
\* and view calls of the chunk loop; the calls of get_block_by_timestamp and
\* of w3.eth.block_number can fail; the process is stopped between writes
SpecDated == Init /\ [][DatedNext]_vars

CrashNext ==
    \/ StartUndated
    \/ SkipUnreachable
    \/ BeginNetwork
    \/ GetLogsReturns
    \/ GetLogsFails
    \/ ProcessLogAnswered
    \/ AdvanceCheckpoints
    \/ SaveHistory
    \/ FinishRun
    \/ Interrupt
    \/ InterruptStoreWrite
    \/ InterruptHistoryWrite
    \/ NewBlocks

\* runs without dates; the process can be stopped anywhere, inside a file
\* write included
SpecCrash == Init /\ [][CrashNext]_vars

\* one call of get_block_by_timestamp on a short chain, every call of the
\* provider free to fail
SpecResolver == Init /\ [][ResolverNext]_vars

AnsweredNext ==
    \/ ResolverCall
    \/ BlockNumberReturns
    \/ WhileTest
    \/ GetBlockReturns
    \/ ReturnAfterLoopAnswered

\* the call is made on a chain whose timestamps increase from block to block
ResolverCallIncreasing ==
    /\ ResolverCall
    /\ \A b \in 1..(Len(chain') - 1) : chain'[b] < chain'[b + 1]

FairNext ==
    \/ ResolverCallIncreasing
    \/ BlockNumberReturns
    \/ BlockNumberRateLimited
    \/ BlockNumberRaises
    \/ WhileTest
    \/ GetBlockReturns
    \/ GetBlockRateLimited
    \/ GetBlockRaises
    \/ ReturnAfterLoop

\* one call of get_block_by_timestamp, every call of the provider free to
\* fail, in a process that keeps running: a step that can be taken is taken
SpecResolverFair == Init /\ [][FairNext]_vars /\ WF_vars(FairNext)

\* one call of get_block_by_timestamp on a short chain, the provider
\* answering every call
SpecResolverAnswered == Init /\ [][AnsweredNext]_vars

ReplayInit ==
    /\ ScanInit
    /\ ResolverInit
    /\ WritersInit
    /\ provider \in Providers
    /\ run = 0
    /\ run_dates = <<0, 0>>

\* the first run, with any dates
FirstRun ==
    /\ run = 0
    /\ \E start_date, end_date \in Dates \cup {0} :
          /\ StartRun(start_date, end_date)
          /\ run_dates' = <<start_date, end_date>>
    /\ run' = 1

\* the second run, once the first has returned, with the dates of the first
SecondRun ==
    /\ run = 1
    /\ pc = "done"
    /\ StartRun(run_dates[1], run_dates[2])
    /\ run' = 2
    /\ UNCHANGED run_dates

ReplaySkipUnreachable ==
    /\ net_i <= Len(Networks)
    /\ network_name \in provider.down
    /\ SkipUnreachable

ReplayBeginNetwork ==
    /\ net_i <= Len(Networks)
    /\ network_name \notin provider.down
    /\ BeginNetworkWith(0)

ReplayGetLogsReturns ==
    /\ pc = "get_logs"
    /\ provider.get_logs[<<network_name, ChunkClass(current_from)>>] = "returns"
    /\ GetLogsReturns

ReplayGetLogsRateLimited ==
    /\ pc = "get_logs"
    /\ provider.get_logs[<<network_name, ChunkClass(current_from)>>] = "limited"
    /\ GetLogsRateLimited

ReplayGetLogsFails ==
    /\ pc = "get_logs"
    /\ provider.get_logs[<<network_name, ChunkClass(current_from)>>] = "fails"
    /\ GetLogsFails

ReplayProcessLog ==
    ProcessLogWith(provider.decimals, provider.discount, provider.get_block)

ReplayNext ==
    \/ FirstRun
    \/ SecondRun
    \/ ReplaySkipUnreachable
    \/ ReplayBeginNetwork
    \/ ReplayGetLogsReturns
    \/ ReplayGetLogsRateLimited
    \/ ReplayGetLogsFails
    \/ ReplayProcessLog
    \/ AdvanceCheckpoints
    \/ SaveHistory
    \/ FinishRun

\* two runs with the same dates, one after the other, against a provider
\* that answers every call the second time as it did the first
SpecReplay == ReplayInit /\ [][ReplayNext]_vars

\* two processes call update_liquidations_db on one store, no lock between
\* them
SpecWriters == Init /\ [][WritersNext]_vars

\* liquidation_history.json as earlier runs left it: 0xDd was scanned to
\* block 4 and has left the configuration since, 0xBb was scanned to block
\* 10007 through a node that was ahead of the one this run reads, 0xCc has a
\* checkpoint and 0xAa has none
LoadedAtStart ==
    Put(Put(Put(EmptyDict, history_key("ethereum", "0xDd"), 4),
            history_key("ethereum", "0xBb"), 10007),
        history_key("optimism", "0xCc"), 5)

OneRunInit ==
    /\ ScanInitFrom(LoadedAtStart)
    /\ ReplayIdle
    /\ ResolverInit
    /\ WritersInit

StartOneRun ==
    /\ pc = "idle"
    /\ StartUndated

OneRunNext ==
    \/ StartOneRun
    \/ SkipUnreachable
    \/ BeginNetwork
    \/ SetupRaises
    \/ GetLogsReturns
    \/ GetLogsRateLimited
    \/ GetLogsFails
    \/ ProcessLog
    \/ AdvanceCheckpoints
    \/ SaveHistory
    \/ FinishRun
    \/ Interrupt
    \/ NewBlocks

\* one run without dates that loads LoadedAtStart at line 276, every call of
\* the provider free to fail
SpecOneRun == OneRunInit /\ [][OneRunNext]_vars

\* ------------------------------------------------------------------
\* Properties of the scan
\* ------------------------------------------------------------------

TxHashes(db) == {db[i].tx_hash : i \in 1..Len(db)}

NoDuplicateTxHash ==
    \A i, j \in 1..Len(db_file) :
        i # j => db_file[i].tx_hash # db_file[j].tx_hash

\* the step passes an event to update_liquidations_db (line 464)
PassesEvent == Len(all_new_events') = Len(all_new_events) + 1

PassedEvent == all_new_events'[Len(all_new_events')]

\* C1: no two records of the store share a tx_hash, and passing
\* update_liquidations_db an event whose tx_hash is stored leaves the store
\* as it was
C1_UniqueTxHash ==
    /\ []NoDuplicateTxHash
    /\ [][PassesEvent /\ PassedEvent.tx_hash \in TxHashes(db_file)
            => db_file' = db_file]_scan_vars

\* an event was passed whose tx_hash was already stored: it is not a record
C1_Witness ==
    \E i \in 1..Len(all_new_events) :
        /\ all_new_events[i].tx_hash \in TxHashes(db_file)
        /\ all_new_events[i] \notin SeqToSet(db_file)

\* the log an event of the store was decoded from
SourceLogs(e) ==
    {l \in SeqToSet(ChainLogs(e.network)) :
        /\ l.transactionHash = e.tx_hash
        /\ l.user = e.user
        /\ Lower(l.address) = Lower(e.controller)}

StoredFrom(l) ==
    \E i \in 1..Len(db_file) :
        /\ db_file[i].tx_hash = l.transactionHash
        /\ db_file[i].user = l.user
        /\ Lower(db_file[i].controller) = Lower(l.address)

C5_AcceptedBeforeCheckpoint ==
    /\ \A i \in 1..Len(all_new_events) :
          all_new_events[i].tx_hash \in TxHashes(db_file)
    /\ covered \subseteq TxHashes(db_file)
    /\ NoDuplicateTxHash

\* C6 as stated: the checkpoint map is written after every chunk: the file
\* equals the map in memory except between lines 469-472 and line 473, where
\* it lacks the one chunk [current_from, current_to] of at most 10,000
\* blocks; stopping the process leaves the file so
C6_PersistedEveryChunk ==
    /\ []((Running /\ pc # "save") => history_file = history)
    /\ [](pc = "save" =>
            /\ current_from <= current_to
            /\ current_to - current_from + 1 <= 10000
            /\ DOMAIN history_file \subseteq DOMAIN history
            /\ \A k \in DOMAIN history :
                  \/ k \in DOMAIN history_file /\ history[k] = history_file[k]
                  \/ k[1] = network_name /\ history[k] = current_to)
    /\ [][pc' = "killed" => history_file' = history_file]_vars

\* C8: a chunk whose every get_logs call is rate-limited gets 6 calls, the
\* retry k = 1..5 after a sleep of 2^k plus a jitter in [0, 2); the scan
\* then decodes no log for the chunk, raises nothing, sets the checkpoint of
\* every included controller to the chunk's end and goes on
C8_RateLimitExhaustion ==
    /\ [](pc = "get_logs" /\ retry_count >= 1 =>
            /\ attempts = retry_count
            /\ retry_count <= 5
            /\ 2 ^ retry_count <= delay
            /\ delay < 2 ^ retry_count + 2)
    /\ [][get_logs_result = "pending" /\ get_logs_result' = "exhausted" =>
            /\ attempts' = 6
            /\ retry_count = 5
            /\ pc' = "checkpoint"
            /\ db_file' = db_file]_scan_vars
    /\ [][get_logs_result = "exhausted" /\ pc = "checkpoint" /\ pc' # "killed" =>
            /\ pc' = "save"
            /\ db_file' = db_file
            /\ \A a \in AddressSet(network_name) :
                  effective_start[a] <= current_to =>
                      /\ history_key(network_name, a) \in DOMAIN history'
                      /\ history'[history_key(network_name, a)] = current_to]_scan_vars
    /\ [][get_logs_result = "exhausted" /\ pc = "save" /\ pc' # "killed" =>
            /\ history_file' = history
            /\ db_file' = db_file
            /\ pc' \in {"get_logs", "network"}
            /\ pc' = "get_logs" => current_from' = current_to + 1
            /\ current_to < to_block => pc' = "get_logs"]_scan_vars

\* the checkpoints of a chunk whose calls were all rate-limited are about to
\* be written, and a further chunk follows
C8_Witness ==
    /\ pc = "save"
    /\ get_logs_result = "exhausted"
    /\ current_to < to_block
    /\ history[history_key(network_name, "0xAa")] = current_to

\* the original statement of C10: once the log with debt 2 WAD was decoded
\* while the discount lookup is unavailable, there is an event with
\* debt_repaid 2.0, user_loss_amount 0.12 and total_loss_value 2.12
C10_Original ==
    (/\ pc = "logs"
     /\ log_i > 1
     /\ logs[log_i - 1].debt = 2 * WAD
     /\ logs[log_i - 1].wellformed
     /\ "0xAa" \in DOMAIN DISCOUNT_CACHE => DISCOUNT_CACHE["0xAa"] = 600)
    => \E i \in 1..Len(all_new_events) :
          /\ all_new_events[i].tx_hash = logs[log_i - 1].transactionHash
          /\ all_new_events[i].debt_repaid = 200
          /\ all_new_events[i].user_loss_amount = 12
          /\ all_new_events[i].total_loss_value = 212

\* C10 as amended: the log with debt 2 WAD is below the threshold and gives
\* no event; an event of a controller whose discount lookup failed carries
\* the 6% fallback: user_loss_amount = 0.06 debt_repaid and
\* total_loss_value = 1.06 debt_repaid
C10_FallbackDiscount ==
    /\ \A i \in 1..Len(all_new_events) :
          LET e == all_new_events[i]
          IN  /\ e.debt_repaid # 200
              /\ \A l \in SourceLogs(e) : l.debt # 2 * WAD
              /\ e.controller \in DOMAIN DISCOUNT_CACHE
              /\ e.liquidation_discount = DISCOUNT_CACHE[e.controller]
              /\ e.liquidation_discount # DiscountPercent(ChainDiscount(e.controller))
                    => /\ e.liquidation_discount = 600
                       /\ 100 * e.user_loss_amount = 6 * e.debt_repaid
                       /\ e.total_loss_value = e.debt_repaid + e.user_loss_amount
    /\ \A i \in 1..Len(db_file) : db_file[i].debt_repaid # 200

\* the log with debt 2 WAD was decoded after the discount lookup had failed
\* for an event of 7.0: that event lost 0.42 and 7.42 in total
C10_Witness ==
    /\ pc = "logs"
    /\ log_i > 1
    /\ logs[log_i - 1].debt = 2 * WAD
    /\ \E i \in 1..Len(all_new_events) :
          /\ all_new_events[i].controller = "0xAa"
          /\ all_new_events[i].liquidation_discount = 600
          /\ all_new_events[i].debt_repaid = 700
          /\ all_new_events[i].user_loss_amount = 42
          /\ all_new_events[i].total_loss_value = 742

\* C2 as stated: no step lowers the checkpoint on file of any key, whatever
\* dates the runs are given
C2_CheckpointNeverDecreases ==
    [][\A k \in DOMAIN history_file :
          /\ k \in DOMAIN history_file'
          /\ history_file'[k] >= history_file[k]]_scan_vars

\* C4: against a provider that answers the second run as it answered the
\* first, the second run with the same dates appends nothing: no step of it
\* changes the store
C4_SecondRunAppendsNothing ==
    [][run = 2 => db_file' = db_file]_vars

\* the second run over a dated range passed again an event the first run
\* had stored, and its chunk ends with the store as the first run left it
C4_Witness ==
    /\ run = 2
    /\ pc = "save"
    /\ start_timestamp # 0
    /\ all_new_events # <<>>
    /\ \A i \in 1..Len(all_new_events) :
          all_new_events[i].tx_hash \in TxHashes(db_file)
    /\ Len(db_file) = Cardinality(TxHashes(db_file))

\* C7: without a start date a controller starts at its checkpoint on file
\* or, having none, at max(creation_block, 1); with or without dates the
\* effective_start of a listed controller and the fromBlock of a log query
\* are at least 1
C7_EffectiveStartNeverZero ==
    /\ [](pc \in {"get_logs", "logs", "checkpoint", "save"} =>
            /\ current_from >= 1
            /\ \A a \in AddressSet(network_name) : effective_start[a] >= 1)
    /\ [][pc = "network" /\ pc' = "get_logs" /\ start_timestamp = 0 =>
            \A i \in 1..Len(controller_contracts(network_name)) :
                LET ctrl == controller_contracts(network_name)[i]
                    a == to_checksum_address(ctrl.address)
                    key == history_key(network_name, a)
                IN  effective_start'[a] =
                        IF key \in DOMAIN history_file
                        THEN history_file[key]
                        ELSE IF ctrl.creation_block >= 1
                        THEN ctrl.creation_block ELSE 1]_scan_vars

\* a run without dates and without checkpoints queries the logs of the
\* controller created at block 0 from block 1
C7_Witness ==
    /\ pc = "get_logs"
    /\ start_timestamp = 0
    /\ history_file = EmptyDict
    /\ net_i = 1
    /\ CtrlOf(network_name, "0xAa").creation_block = 0
    /\ effective_start["0xAa"] = 1
    /\ current_from = 1

\* C9 as stated: the block get_block_by_timestamp returns has a timestamp
\* within 3600 seconds of the target, or it is the chain head
C9_WithinToleranceOrHead ==
    resolver_pc = "returned" =>
        \/ returned = Len(chain)
        \/ /\ returned \in 1..Len(chain)
           /\ Abs(chain[returned] - target_timestamp) <= 3600

FailedChunk == Running /\ get_logs_result = "failed"

\* C12 as stated: a chunk whose get_logs call fails with an error that is not
\* a rate-limit error gets no further get_logs call and has an empty result:
\* no log is decoded and no event is appended while that chunk is handled
C12_FailedChunkIsEmpty ==
    /\ [](FailedChunk /\ pc = "logs" => logs = <<>>)
    /\ [][FailedChunk => /\ attempts' = attempts \/ ~FailedChunk'
                         /\ log_i' = log_i \/ ~FailedChunk'
                         /\ db_file' = db_file
                         /\ all_new_events' = all_new_events \/ ~FailedChunk']_vars

\* C13 as stated: get_block_by_timestamp never raises: when the head or a
\* midpoint block cannot be fetched, the call returns the chain head
C13_NeverRaises ==
    /\ [](resolver_pc # "raised")
    /\ [][resolver_pc = "after" /\ earliest_block <= latest_block =>
            returned' = Len(chain)]_vars

\* the network the loop of line 288 is at cannot be reached
AtUnreachable ==
    /\ pc = "network"
    /\ net_i <= Len(Networks)
    /\ network_name \in provider.down

\* C14: a network whose endpoint cannot be reached is skipped for the whole
\* run: the step that meets it changes no checkpoint and no record and goes
\* on to the next network; no log query is made on it; no checkpoint and no
\* record of it is on file; and a later network the provider answers for is
\* scanned to its end
C14_UnreachableSkipped ==
    /\ [][AtUnreachable => /\ history_file' = history_file
                           /\ history' = history
                           /\ db_file' = db_file
                           /\ all_new_events' = all_new_events
                           /\ pc' = "network"
                           /\ net_i' = net_i + 1]_vars
    /\ [](Running /\ pc # "network" => network_name \notin provider.down)
    /\ [](\A n \in provider.down :
            /\ \A k \in DOMAIN history_file : k[1] # n
            /\ \A i \in 1..Len(db_file) : db_file[i].network # n)
    /\ [](/\ pc = "done"
          /\ run_dates[1] = 0
          /\ provider.down = {Networks[1]}
          /\ provider.get_logs[<<Networks[2], "low">>] = "returns"
          => /\ history_key(Networks[2], "0xCc") \in DOMAIN history_file
             /\ history_file[history_key(Networks[2], "0xCc")] \in
                    IF run_dates[2] = 0
                    THEN {block_number(Networks[2])}
                    ELSE get_block_by_timestamp(Networks[2],
                             DateTimestamp(run_dates[2]),
                             block_number(Networks[2]), 0))

\* the first network was unreachable: the run ended with the second network
\* scanned, its event stored, and nothing of the first on file
C14_Witness ==
    /\ pc = "done"
    /\ run = 1
    /\ provider.down = {"ethereum"}
    /\ history_file = (history_key("optimism", "0xCc") :> 8)
    /\ Len(db_file) = 1
    /\ db_file[1].tx_hash = "0xh7"

\* C15 as stated: no failure of a provider call ends scan_liquidations with
\* an error: a run that has begun is scanning, or has reached its summary,
\* or was stopped from outside
C15_NoFatalFailure == pc # "aborted"

\* the for loop of line 394 stands at a log
AtLog == pc = "logs" /\ log_i <= Len(logs)

\* the step makes a view call that fails: it caches 18 decimals or a 6.0
\* discount for a controller whose chain holds another value
ViewCallFails ==
    \E a \in AllAddresses :
        \/ /\ a \notin DOMAIN DECIMALS_CACHE
           /\ a \in DOMAIN DECIMALS_CACHE'
           /\ DECIMALS_CACHE'[a] # ChainDecimals(a)
        \/ /\ a \notin DOMAIN DISCOUNT_CACHE
           /\ a \in DOMAIN DISCOUNT_CACHE'
           /\ DISCOUNT_CACHE'[a] # DiscountPercent(ChainDiscount(a))

\* the step is one in which w3.eth.get_block (line 442) raises
BlockFetchFails ==
    /\ AtLog
    /\ ReachesStore(network_name, logs[log_i])
    /\ \E decimals_ok, discount_ok \in BOOLEAN :
          ProcessLogWith(decimals_ok, discount_ok, FALSE)

\* the loop goes from each log to the next, and when it is left the
\* checkpoints of the chunk's controllers are set to current_to
ChunkContinues ==
    /\ [][AtLog /\ pc' = "logs" => log_i' = log_i + 1 /\ logs' = logs]_vars
    /\ [][pc = "logs" /\ pc' \notin {"logs", "killed"} =>
            /\ log_i > Len(logs)
            /\ pc' = "save"
            /\ \A a \in ChunkAddresses(network_name, effective_start,
                                        current_to) :
                  history'[history_key(network_name, a)] = current_to]_vars

\* C16 as stated: a log whose processing meets a decode failure, a
\* view-call failure or a block fetch failure adds no record; the loop goes
\* on to the next log and the chunk's checkpoints are updated
C16_Original ==
    /\ [][AtLog /\ pc' = "logs" /\ (\/ ~logs[log_i].wellformed
                                    \/ ViewCallFails
                                    \/ BlockFetchFails)
            => db_file' = db_file /\ all_new_events' = all_new_events]_vars
    /\ ChunkContinues

\* C16: a log whose decoding raises or whose block fetch raises adds no
\* record; a failed view call raises nothing: the log is decoded with the
\* default it caches and, its block fetched, is passed to the store; the
\* loop goes on to the next log and the chunk's checkpoints are updated
C16_FailedLogIsSkipped ==
    /\ [][AtLog /\ pc' = "logs" /\ (\/ ~logs[log_i].wellformed
                                    \/ BlockFetchFails)
            => db_file' = db_file /\ all_new_events' = all_new_events]_vars
    /\ [][/\ AtLog /\ pc' = "logs" /\ ViewCallFails
          /\ ReachesStore(network_name, logs[log_i])
          /\ ~BlockFetchFails
          => /\ PassesEvent
             /\ PassedEvent.tx_hash = logs[log_i].transactionHash
             /\ PassedEvent.liquidation_discount =
                    DISCOUNT_CACHE'[PassedEvent.controller]
             /\ PassedEvent.collateral_received.decimals =
                    DECIMALS_CACHE'[PassedEvent.controller]
             /\ db_file' = update_liquidations_db(db_file,
                                                  <<PassedEvent>>)]_vars
    /\ ChunkContinues

\* the malformed log of block 8 left no record and the logs after it were
\* processed; the log of tx 0xh1 was stored with the 6.0 discount of a failed
\* view call; the block fetch failed for the first log of tx 0xh4, and the
\* second was processed and stored; both chunks had their checkpoint saved
C16_Witness ==
    /\ pc = "network"
    /\ net_i = 2
    /\ history_key("ethereum", "0xAa") \in DOMAIN history_file
    /\ history_file[history_key("ethereum", "0xAa")] = 10005
    /\ Len(db_file) = 2
    /\ db_file[1].tx_hash = "0xh1"
    /\ db_file[1].liquidation_discount = DefaultDiscount
    /\ DiscountPercent(ChainDiscount("0xAa")) # DefaultDiscount
    /\ db_file[2].tx_hash = "0xh4"
    /\ db_file[2].controller = "0xBb"
    /\ all_new_events = db_file

\* C17 as stated: a checkpoint stands for a fully scanned prefix: a step
\* that moves checkpoints to current_to does so for a chunk whose log query
\* returned, and for each controller it moves, the query began no later than
\* that controller's first unscanned block, which is the block after its
\* checkpoint or, without one, max(creation_block, 1)
C17_CheckpointIsScannedPrefix ==
    [][pc # "save" /\ pc' = "save" =>
         /\ get_logs_result = "returned"
         /\ \A a \in ChunkAddresses(network_name, effective_start,
                                     current_to) :
               LET key == history_key(network_name, a)
               IN  /\ current_from <= effective_start[a]
                   /\ effective_start[a] <=
                          IF key \in DOMAIN history
                          THEN history[key] + 1
                          ELSE Max(CtrlOf(network_name, a).creation_block, 1)]_vars

\* the step is the write of line 122 by process w
Writes(w) == writers[w].pc = "filtered" /\ writers'[w].pc = "idle"

\* C18: update_liquidations_db is a read-modify-write without a lock: the
\* write of a process leaves in the store what that process read and what
\* it appended, and nothing else: a record another process stored between
\* the read and the write is gone from the store
C18_LostUpdate ==
    [][\A w \in Writers :
         Writes(w) =>
           /\ db_file' = update_liquidations_db(writers[w].loaded,
                                                writers[w].new_events)
           /\ \A i \in 1..Len(db_file) :
                 db_file[i].tx_hash \notin
                     TxHashes(writers[w].loaded) \cup
                     TxHashes(writers[w].new_events)
                 => db_file[i].tx_hash \notin TxHashes(db_file')]_vars

\* each process has made one call with an event of its own and both calls
\* have returned: the store holds the event of the second process only
C18_Witness ==
    /\ \A w \in Writers : writers[w].pc = "idle" /\ writers[w].calls = 1
    /\ writers[1].new_events[1].tx_hash = "0xh1"
    /\ writers[2].new_events[1].tx_hash = "0xh7"
    /\ TxHashes(db_file) = {"0xh7"}

\* the controllers of the network in hand whose effective_start is at most
\* the last block of the chunk in hand
DueControllers ==
    {a \in AddressSet(network_name) : effective_start[a] <= current_to}

\* C19: the log query of a chunk is filtered by the addresses of the
\* controllers whose effective_start <= chunk_end, and by no other: it
\* returns the chain's logs of the chunk's blocks emitted by them. Handling
\* the chunk sets the checkpoint of each of them to chunk_end and its
\* effective_start to chunk_end + 1, and leaves the checkpoint and the
\* effective_start of every other controller as they were; the map is then
\* written to the file
C19_ChunkFilterAndAdvance ==
    /\ [](pc = "get_logs" => DueControllers # {})
    /\ [][pc = "get_logs" /\ get_logs_result' = "returned" =>
            \A i \in 1..Len(ChainLogs(network_name)) :
                LET l == ChainLogs(network_name)[i]
                IN  (\E j \in 1..Len(logs') : logs'[j] = l)
                    <=> /\ current_from <= l.blockNumber
                        /\ l.blockNumber <= current_to
                        /\ \E a \in DueControllers :
                              Lower(a) = Lower(l.address)]_vars
    /\ [][pc # "save" /\ pc' = "save" =>
            /\ \A a \in DueControllers :
                  /\ history_key(network_name, a) \in DOMAIN history'
                  /\ history'[history_key(network_name, a)] = current_to
                  /\ effective_start'[a] = current_to + 1
            /\ \A a \in AllAddresses \ DueControllers :
                  effective_start'[a] = effective_start[a]
            /\ \A k \in (DOMAIN history \cup DOMAIN history') \
                        {history_key(network_name, a) : a \in DueControllers} :
                  /\ k \in DOMAIN history
                  /\ k \in DOMAIN history'
                  /\ history'[k] = history[k]]_vars
    /\ [][pc = "save" /\ pc' # "killed" => history_file' = history]_vars

\* the first chunk of ethereum was handled: the controller created at block
\* 0 has its checkpoint at the chunk's end, and the one created at block
\* 10001, which the chunk's filter left out, has none and starts where it did
C19_Witness ==
    /\ pc = "save"
    /\ net_i = 1
    /\ current_from = 1
    /\ current_to = 10000
    /\ history = (history_key("ethereum", "0xAa") :> 10000)
    /\ effective_start["0xAa"] = 10001
    /\ effective_start["0xBb"] = 10001
    /\ Len(logs) = 3

\* the address filter of the log query of the chunk in hand (line 357)
QueryAddresses == ChunkAddresses(network_name, effective_start, current_to)

\* C20 as stated: no log query includes the address of a controller whose
\* effective_start is above the query's fromBlock
C20_Original ==
    pc = "get_logs" =>
        \A a \in QueryAddresses : effective_start[a] <= current_from

\* C20: a controller is left out of a chunk's address filter when, and only
\* when, its effective_start lies after the chunk's last block: no log query
\* includes the address of a controller whose effective_start is above the
\* query's toBlock
C20_ExcludedAfterChunkEnd ==
    pc = "get_logs" =>
        /\ current_from <= current_to
        /\ \A a \in AddressSet(network_name) :
              a \in QueryAddresses <=> effective_start[a] <= current_to

\* a query from block 10000 to block 10005 includes the controller whose
\* effective_start is 10001, and a query from block 1 to block 10000 leaves
\* it out
C20_Witness ==
    /\ pc = "get_logs"
    /\ net_i = 1
    /\ current_from = 10000
    /\ current_to = 10005
    /\ effective_start["0xBb"] = 10001
    /\ "0xBb" \in QueryAddresses
    /\ "0xBb" \notin ChunkAddresses(network_name, effective_start, 10000)

\* the effective_start line 312-321 gives a controller, and the to_block
\* lines 339-342 give the network, when the provider answers every call
AnsweredStart(n, ctrl) == CHOOSE s \in StartChoices(n, ctrl, 0) : TRUE

AnsweredGlobalMin(n) ==
    LET starts == {AnsweredStart(n, controller_contracts(n)[i]) :
                      i \in 1..Len(controller_contracts(n))}
    IN  CHOOSE m \in starts : \A s \in starts : m <= s

AnsweredToBlock(n) == CHOOSE tb \in EndChoices(n, 0) : TRUE

\* the loop of line 288 is at a reachable network with global_min >= to_block
AtNothingNew ==
    /\ pc = "network"
    /\ net_i <= Len(Networks)
    /\ network_name \notin provider.down
    /\ AnsweredGlobalMin(network_name) >= AnsweredToBlock(network_name)

\* C21: a network whose global_min is at least to_block is skipped without
\* error: the step makes no log query, changes no checkpoint and no record,
\* and goes on to the next network
C21_NothingNewSkipped ==
    /\ [][AtNothingNew => /\ pc' = "network"
                          /\ net_i' = net_i + 1
                          /\ attempts' = 0
                          /\ history' = history
                          /\ history_file' = history_file
                          /\ db_file' = db_file
                          /\ all_new_events' = all_new_events]_vars
    /\ [](pc = "get_logs" => /\ current_from <= current_to
                             /\ current_to <= to_block)

\* the second run without dates found both controllers of ethereum at the
\* head the first run had reached, and went on to optimism
C21_Witness ==
    /\ run = 2
    /\ run_dates = <<0, 0>>
    /\ provider.down = {}
    /\ pc = "network"
    /\ net_i = 2
    /\ history = history_file
    /\ \A a \in AddressSet("ethereum") :
          /\ history_key("ethereum", a) \in DOMAIN history
          /\ history[history_key("ethereum", a)] = block_number("ethereum")

\* the chunk loop of lines 354-474 is inside a chunk
InChunk == pc \in {"get_logs", "logs", "checkpoint", "save"}

\* C22: the chunks of a network follow one another in ascending order and
\* partition [global_min, to_block]: the first begins at global_min, each
\* ends at min(from + 9999, to_block) and spans at most 10,000 blocks, the
\* next begins at the block after, and the loop ends after the chunk that
\* ends at to_block; the bounds of a chunk do not move while it is handled
C22_ChunksPartitionRange ==
    /\ [](InChunk => /\ 1 <= current_from
                     /\ current_from <= current_to
                     /\ current_to = Min(current_from + 9999, to_block)
                     /\ current_to - current_from + 1 <= 10000)
    /\ [][pc = "network" /\ pc' = "get_logs" =>
            /\ \A a \in AddressSet(network_name) :
                  current_from' <= effective_start'[a]
            /\ \E a \in AddressSet(network_name) :
                  current_from' = effective_start'[a]
            /\ current_from' < to_block']_vars
    /\ [][pc = "save" /\ pc' = "get_logs" =>
            /\ current_from' = current_to + 1
            /\ current_from' > current_from
            /\ to_block' = to_block
            /\ net_i' = net_i]_vars
    /\ [][pc = "save" /\ pc' = "network" => current_to = to_block]_vars
    /\ [][InChunk /\ pc # "save" /\ InChunk' =>
            /\ current_from' = current_from
            /\ current_to' = current_to
            /\ to_block' = to_block]_vars

\* the first chunk of ethereum, blocks 1 to 10000, was handled and its
\* checkpoint saved; the second, blocks 10001 to the head 10005, is queried
C22_Witness ==
    /\ pc = "get_logs"
    /\ net_i = 1
    /\ current_from = 10001
    /\ current_to = 10005
    /\ to_block = 10005
    /\ history_key("ethereum", "0xAa") \in DOMAIN history_file
    /\ history_file[history_key("ethereum", "0xAa")] = 10000
    /\ history = history_file

\* ------------------------------------------------------------------
\* Properties of get_block_by_timestamp
\* ------------------------------------------------------------------

\* the blocks of the chain whose timestamp is within 3600 s of the target
NearBlocks ==
    {b \in 1..Len(chain) : Abs(chain[b] - target_timestamp) <= 3600}

\* C23: on a chain whose timestamps do not decrease and whose provider
\* answers every call, when some block of [1, head] is within 3600 s of the
\* target, the call returns such a block: the first midpoint it probed that
\* is within the tolerance. Each probe within the tolerance is returned at
\* once and no other probe is
C23_FirstAcceptableMatch ==
    /\ [](resolver_pc = "returned" /\ NearBlocks # {} =>
            /\ returned \in NearBlocks
            /\ returned = mid_block)
    /\ [](resolver_pc = "after" => NearBlocks = {})
    /\ [][resolver_pc = "get_block" =>
            ((resolver_pc' = "returned" /\ returned' = mid_block)
                <=> mid_block \in NearBlocks)]_vars

\* the call returned a block within the tolerance while another block of
\* the chain is closer to the target
C23_Witness ==
    /\ resolver_pc = "returned"
    /\ returned \in NearBlocks
    /\ iteration >= 2
    /\ \E b \in NearBlocks :
          Abs(chain[b] - target_timestamp) <
              Abs(chain[returned] - target_timestamp)

\* the loop of line 213 was left because the range collapsed
Collapsed == resolver_pc = "after" /\ earliest_block > latest_block

\* C24 as stated: when the range collapses without a match the call returns
\* the block it probed last, and does not raise
C24_Original ==
    [][Collapsed => resolver_pc' = "returned" /\ returned' = mid_block]_vars

\* C24: when the range collapses without a match the call does not raise:
\* it returns the chain head read again at line 259 or, when that read
\* fails, the value of latest_block, whichever block was probed last
C24_CollapseReturnsHead ==
    /\ [](Collapsed => NearBlocks = {} \/ iteration = 0)
    /\ [][Collapsed =>
            /\ resolver_pc' = "returned"
            /\ returned' = Len(chain) \/ returned' = latest_block]_vars

\* no block is within the tolerance, the range collapsed, and the call
\* returned the head although the block it probed last is another
C24_Witness ==
    /\ resolver_pc = "returned"
    /\ NearBlocks = {}
    /\ earliest_block > latest_block
    /\ iteration >= 2
    /\ returned = Len(chain)
    /\ mid_block # Len(chain)

RECURSIVE FloorLog2(_)
FloorLog2(h) == IF h <= 1 THEN 0 ELSE 1 + FloorLog2(h \div 2)

\* C25: get_block_by_timestamp terminates: an iteration of its loop that
\* neither returns nor leaves the loop makes [earliest_block, latest_block]
\* strictly shorter, at most floor(log2(head)) + 1 midpoints are probed, a
\* block is fetched at most 5 times, and a call that has begun returns or
\* raises
C25_SearchTerminates ==
    /\ [](iteration <= FloorLog2(Len(chain)) + 1)
    /\ [](retry <= 4)
    /\ [][resolver_pc = "get_block" /\ resolver_pc' = "while" =>
            /\ earliest_block' >= earliest_block
            /\ latest_block' <= latest_block
            /\ latest_block' - earliest_block' <
                   latest_block - earliest_block]_vars
    /\ (resolver_pc = "block_number" ~> resolver_pc \in {"returned", "raised"})

\* a call on a chain of at least 4 blocks returned after probing
\* floor(log2(head)) + 1 midpoints
C25_Witness ==
    /\ resolver_pc = "returned"
    /\ Len(chain) >= 4
    /\ iteration = FloorLog2(Len(chain)) + 1
    /\ iteration = 3

\* ------------------------------------------------------------------
\* Properties of the caches
\* ------------------------------------------------------------------

\* the step is taken inside one process
SameProcess == Running /\ Running'

\* C26: inside one process a controller's decimals and discount are each
\* looked up once: an entry of either cache, the fetched value or the
\* default of a failed lookup, keeps its value until the process ends, and
\* every event passed carries the values the caches hold for its controller
C26_LookupOncePerProcess ==
    /\ [][SameProcess =>
            /\ \A a \in DOMAIN DECIMALS_CACHE :
                  /\ a \in DOMAIN DECIMALS_CACHE'
                  /\ DECIMALS_CACHE'[a] = DECIMALS_CACHE[a]
            /\ \A a \in DOMAIN DISCOUNT_CACHE :
                  /\ a \in DOMAIN DISCOUNT_CACHE'
                  /\ DISCOUNT_CACHE'[a] = DISCOUNT_CACHE[a]]_vars
    /\ [][SameProcess /\ PassesEvent =>
            /\ PassedEvent.controller \in DOMAIN DECIMALS_CACHE'
            /\ PassedEvent.controller \in DOMAIN DISCOUNT_CACHE'
            /\ PassedEvent.collateral_received.decimals =
                   DECIMALS_CACHE'[PassedEvent.controller]
            /\ PassedEvent.liquidation_discount =
                   DISCOUNT_CACHE'[PassedEvent.controller]]_vars
    /\ [](\A a \in DOMAIN DECIMALS_CACHE :
              DECIMALS_CACHE[a] \in {ChainDecimals(a), DefaultDecimals})
    /\ [](\A a \in DOMAIN DISCOUNT_CACHE :
              DISCOUNT_CACHE[a] \in {DiscountPercent(ChainDiscount(a)),
                                     DefaultDiscount})

\* one run passed two events of the controller 0xAa, whose discount on chain
\* is 11 percent: the lookup failed at the first and both carry 6.0 percent
C26_Witness ==
    /\ Running
    /\ Len(all_new_events) = 2
    /\ all_new_events[1].tx_hash # all_new_events[2].tx_hash
    /\ \A i \in 1..2 :
          /\ all_new_events[i].controller = "0xAa"
          /\ all_new_events[i].liquidation_discount = DefaultDiscount
    /\ DiscountPercent(ChainDiscount("0xAa")) # DefaultDiscount

\* ------------------------------------------------------------------
\* Properties of the checkpoint map
\* ------------------------------------------------------------------

\* the keys of the controllers of the configuration
ConfigKeys ==
    UNION {{history_key(n, a) : a \in AddressSet(n)} : n \in NetworkSet}

NetworkIndex(n) == CHOOSE i \in 1..Len(Networks) : Networks[i] = n

\* the file holds for k what the run loaded for k: the same value, or none
SameAsLoaded(k) ==
    /\ (k \in DOMAIN history_file) = (k \in DOMAIN LoadedAtStart)
    /\ k \in DOMAIN history_file => history_file[k] = LoadedAtStart[k]

\* no chunk handled so far in the run has included the controller of k: the
\* key is not in the configuration, or its network is still to come, or the
\* cursor of its controller lies beyond the start of the current chunk
NotIncludedSoFar(k) ==
    \/ k \notin ConfigKeys
    \/ NetworkIndex(k[1]) > net_i
    \/ NetworkIndex(k[1]) = net_i /\ pc = "network"
    \/ /\ NetworkIndex(k[1]) = net_i
       /\ pc \in {"get_logs", "logs", "checkpoint"}
       /\ effective_start[k[2]] > current_from

AllKeys == ConfigKeys \cup DOMAIN LoadedAtStart \cup DOMAIN history_file

\* C27 as stated: in a map persisted by a chunk of one network, the entries
\* of every other network hold the values loaded at the start of the run
C27_Original ==
    Running =>
        \A n \in NetworkSet :
            (\E k \in ConfigKeys : k[1] = n /\ ~SameAsLoaded(k)) =>
                \A k \in AllKeys : k[1] # n => SameAsLoaded(k)

\* C27: handling a chunk changes only the checkpoint entries of the
\* controllers included in that chunk, and the map is persisted as it is in
\* memory: in every checkpoint map persisted during a run, the entry of a key
\* that no chunk handled so far has included (a controller excluded so far, a
\* network skipped, unreachable or still to come, a key absent from the
\* configuration) holds the value loaded at the start of the run
C27_CheckpointFrame ==
    /\ [][(Running /\ Running' /\ history' # history) =>
            LET included == {history_key(network_name, a) :
                               a \in ChunkAddresses(network_name,
                                         effective_start, current_to)}
            IN  /\ pc' = "save"
                /\ DOMAIN history' = DOMAIN history \cup included
                /\ \A k \in included : history'[k] = current_to
                /\ \A k \in DOMAIN history \ included :
                      history'[k] = history[k]]_vars
    /\ [][(Running /\ Running' /\ history_file' # history_file) =>
            history_file' = history]_vars
    /\ [][(Running /\ Running' /\ pc = "network" /\ pc' = "network") =>
            history_file' = history_file /\ history' = history]_vars
    /\ [](Running =>
            \A k \in AllKeys : NotIncludedSoFar(k) => SameAsLoaded(k))

\* the first chunk of ethereum is on file with 0xAa alone in it: 0xBb, 0xCc
\* and the key that left the configuration are as they were loaded
C27_Witness ==
    /\ pc = "get_logs"
    /\ network_name = "ethereum"
    /\ current_from = 10001
    /\ history_file = Put(LoadedAtStart, history_key("ethereum", "0xAa"), 10000)
    /\ NotIncludedSoFar(history_key("ethereum", "0xBb"))

\* ------------------------------------------------------------------
\* Properties of the store against the fetched logs
\* ------------------------------------------------------------------

\* C28: once a chunk has been handled, every log fetched for it that decodes,
\* has a debt of at least 5 WAD and a liquidator that differs from the user
\* has its own record in the store (its tx_hash, its user and its
\* controller), also when another qualifying log, of another user or another
\* controller, carries the same tx_hash
C28_NoQualifyingLogDropped ==
    (pc = "save" /\ get_logs_result = "returned") =>
        \A i \in 1..Len(logs) :
            ReachesStore(network_name, logs[i]) => StoredFrom(logs[i])

\* ------------------------------------------------------------------
\* Properties of a completed chunk loop
\* ------------------------------------------------------------------

\* line 321 on the map as it was loaded: the effective_start an undated run
\* gives the controller at address a when it builds controllers_list
InitialStart(n, a) ==
    LET ctrl == controller_contracts(n)[CHOOSE i \in 1..Len(Addresses(n)) :
                                            Addresses(n)[i] = a]
    IN  Get(LoadedAtStart, history_key(n, a), Max(ctrl.creation_block, 1))

\* the map holds for k what the run loaded for k: the same value, or none
HoldsLoaded(file, k) ==
    /\ (k \in DOMAIN file) = (k \in DOMAIN LoadedAtStart)
    /\ k \in DOMAIN file => file[k] = LoadedAtStart[k]

\* the step that persists the last chunk of a network and leaves its loop
LoopCompletes == pc = "save" /\ pc' = "network"

\* C29: when the chunk loop of a network runs to completion, every controller
\* of the network whose initial effective_start was <= to_block has
\* checkpoint to_block, in memory and on file, whatever calls failed on the
\* way, and every controller whose initial effective_start was > to_block has
\* the checkpoint it had at the start of the run
C29_CompletedLoopReachesToBlock ==
    [][LoopCompletes =>
        \A a \in AddressSet(network_name) :
            LET k == history_key(network_name, a)
            IN  IF InitialStart(network_name, a) <= to_block
                THEN /\ k \in DOMAIN history_file'
                     /\ history_file'[k] = to_block
                     /\ history'[k] = to_block
                ELSE /\ HoldsLoaded(history_file', k)
                     /\ HoldsLoaded(history', k)]_vars

\* the loop of ethereum has completed with head 10005 and no log query of
\* it has returned: 0xAa has checkpoint 10005 and 0xBb, whose start 10007 lay
\* beyond the head, has kept 10007
C29_Witness ==
    /\ pc = "network"
    /\ net_i = 2
    /\ db_file = <<>>
    /\ history_key("ethereum", "0xAa") \in DOMAIN history_file
    /\ history_file[history_key("ethereum", "0xAa")] = 10005
    /\ history_file[history_key("ethereum", "0xBb")] = 10007
    /\ InitialStart("ethereum", "0xBb") > 10005

\* ------------------------------------------------------------------
\* Properties of get_block_by_timestamp across two targets
\* ------------------------------------------------------------------

RECURSIVE SearchOn(_, _, _, _)
\* lines 213-243 and 256-260 on the chain c when every call of the provider
\* answers: the blocks the search of [earliest_block, latest_block] returns
SearchOn(c, target, earliest, latest) ==
    IF earliest > latest
    THEN AfterLoop(earliest, latest, Len(c), FALSE)
    ELSE LET mid == Midpoint(earliest, latest)
         IN  IF WithinTolerance(c[mid], target) THEN {mid}
             ELSE IF c[mid] < target
             THEN SearchOn(c, target, mid + 1, latest)
             ELSE SearchOn(c, target, earliest, mid - 1)

\* get_block_by_timestamp(w3, target, ...) on the chain c, no call failing
ResolveOn(c, target) == SearchOn(c, target, 1, Len(c))

\* the call has returned what the search of its chain returns for its target
ReturnedIsResolved ==
    resolver_pc = "returned" => returned \in ResolveOn(chain, target_timestamp)

\* C30: on one chain whose block timestamps do not decrease and with every
\* call answered, the block returned for a target is <= the block returned
\* for every later target and >= the block returned for every earlier one
C30_OrderPreserving ==
    resolver_pc = "returned" =>
        \A other \in Targets : \A b \in ResolveOn(chain, other) :
            /\ target_timestamp <= other => returned <= b
            /\ other <= target_timestamp => b <= returned

====
